---- MODULE Spec2Model ----
(***************************************************************************)
(* Model of the traffic dashboard: the Interval Query Service of main.py   *)
(* (load, fetch-traffic, fetch-minmax, fetch-variables and their helpers)  *)
(* and the Aggregation Pipeline of prepare_data.py.                        *)
(*                                                                         *)
(* JSON values are records [k, n, s, kids]:                                *)
(*   k    the Python type after json.load: "null" "bool" "int" "float"     *)
(*        "str" "arr" "obj";                                               *)
(*   n    the number (bool: 1/0; a time string: its instant);             *)
(*   s    float: "fin" "nan" "inf"; str: the text, where the texts         *)
(*        "iso-T" "iso-sp" "iso-Z" "iso-off" stand for an ISO-8601 time    *)
(*        with a T or space separator, a trailing Z, or a UTC offset;      *)
(*   kids the items of an array / the (key, value) pairs of an object, in  *)
(*        insertion order.                                                 *)
(***************************************************************************)
EXTENDS Integers, Sequences, FiniteSets, TLC

VARIABLES
    pyZ,                  \* whether this interpreter's fromisoformat accepts a trailing Z
    trafficFile,          \* content of traffic_agg.geojson on disk, or MissingFile
    state,                \* "Unloaded" | "Ready"
    TRAFFIC_FEATURES_ALL, \* main.py:158
    TRAFFIC_VARS,         \* main.py:161
    GLOBAL_STATS,         \* main.py:162
    req,                  \* the last request
    resp,                 \* the last response
    call,                 \* the last direct call of a helper: [op, in, out]
    traffic,              \* prepare_data.py: the traffic table, after lines 64-85
    roads,                \* the roads table (line 62)
    buildings,            \* the buildings table (line 63)
    pc,                   \* the section of prepare_data.py that runs next
    agg,                  \* line 106
    traffic_geo,          \* line 111
    artifacts             \* the output files written so far

svcVars == <<pyZ, trafficFile, state, TRAFFIC_FEATURES_ALL, TRAFFIC_VARS, GLOBAL_STATS, req, resp>>
pipeVars == <<traffic, roads, buildings, pc, agg, traffic_geo, artifacts>>
vars == <<svcVars, call, pipeVars>>

----------------------------------------------------------------------------
(* Bounds *)
MaxTime == 2
MaxFeatures == 1
MaxProps == 3
MaxVals == 4
MaxDepth == 2
MaxRows == 2
MaxRoads == 2

----------------------------------------------------------------------------
(* JSON values *)
JNull == [k |-> "null", n |-> 0, s |-> "", kids |-> <<>>]
JBool(b) == [k |-> "bool", n |-> IF b THEN 1 ELSE 0, s |-> "", kids |-> <<>>]
JInt(i) == [k |-> "int", n |-> i, s |-> "", kids |-> <<>>]
JFloat(i) == [k |-> "float", n |-> i, s |-> "fin", kids |-> <<>>]
JNaN == [k |-> "float", n |-> 0, s |-> "nan", kids |-> <<>>]
JInf == [k |-> "float", n |-> 0, s |-> "inf", kids |-> <<>>]
JStr(text) == [k |-> "str", n |-> 0, s |-> text, kids |-> <<>>]
JTime(form, t) == [k |-> "str", n |-> t, s |-> form, kids |-> <<>>]
JArr(items) == [k |-> "arr", n |-> 0, s |-> "",
                kids |-> [i \in 1..Len(items) |-> [key |-> "", val |-> items[i]]]]
JObj(pairs) == [k |-> "obj", n |-> 0, s |-> "", kids |-> pairs]
KV(key, v) == [key |-> key, val |-> v]

Items(arr) == [i \in 1..Len(arr.kids) |-> arr.kids[i].val]
HasKey(obj, key) == \E i \in 1..Len(obj.kids) : obj.kids[i].key = key
\* dict.get(key, default)
GetOr(obj, key, default) ==
    IF HasKey(obj, key)
    THEN obj.kids[CHOOSE i \in 1..Len(obj.kids) : obj.kids[i].key = key].val
    ELSE default
\* dict.get(key): None when the key is missing
Get(obj, key) == GetOr(obj, key, JNull)

\* Python truthiness of a loaded JSON value
Truthy(v) ==
    CASE v.k = "null" -> FALSE
      [] v.k \in {"bool", "int"} -> v.n # 0
      [] v.k = "float" -> v.s # "fin" \/ v.n # 0
      [] v.k = "str" -> v.s # ""
      [] OTHER -> Len(v.kids) > 0

\* math.isnan(x) or math.isinf(x) for a float
IsNanOrInf(v) == v.k = "float" /\ v.s # "fin"

RECURSIVE SelectSeq2(_, _)
\* the subsequence of s at the (ascending) indices in keep
SelectSeq2(s, keep) ==
    IF s = <<>> THEN <<>>
    ELSE LET n == Len(s)
             rest == SelectSeq2(SubSeq(s, 1, n - 1), keep)
         IN IF n \in keep THEN Append(rest, s[n]) ELSE rest

----------------------------------------------------------------------------
(* main.py helpers *)

RECURSIVE SanitizeJson(_)
\* sanitize_json without its list branch
SanitizeJsonNoLists(obj) ==
    IF obj.k = "float"
    THEN IF IsNanOrInf(obj) THEN JNull ELSE obj
    ELSE IF obj.k = "obj"
    THEN [obj EXCEPT !.kids = [i \in 1..Len(obj.kids) |->
                                  [key |-> obj.kids[i].key,
                                   val |-> SanitizeJson(obj.kids[i].val)]]]
    ELSE obj

SanitizeJson(obj) ==
    IF obj.k = "float"
    THEN IF IsNanOrInf(obj) THEN JNull ELSE obj
    ELSE IF obj.k \in {"obj", "arr"}
    THEN [obj EXCEPT !.kids = [i \in 1..Len(obj.kids) |->
                                  [key |-> obj.kids[i].key,
                                   val |-> SanitizeJson(obj.kids[i].val)]]]
    ELSE obj

NoDt == [k |-> "none", t |-> 0, aware |-> FALSE]
Dt(t, aware) == [k |-> "dt", t |-> t, aware |-> aware]
DtFault == [k |-> "fault", t |-> 0, aware |-> FALSE]

\* datetime.fromisoformat after ' ' was replaced by 'T'
FromIsoFormat(text, t, z) ==
    CASE text \in {"iso-T", "iso-sp"} -> Dt(t, FALSE)
      [] text = "iso-off" -> Dt(t, TRUE)
      [] text = "iso-Z" -> IF z THEN Dt(t, TRUE) ELSE NoDt
      [] OTHER -> NoDt

ParseIso(v, z) ==
    IF ~Truthy(v) THEN NoDt
    ELSE IF v.k # "str" THEN DtFault       \* .replace on a non-string, outside the try
    ELSE FromIsoFormat(v.s, v.n, z)

\* a < b on datetimes: "fault" when one is naive and the other aware
DtLess(a, b) ==
    IF a.aware # b.aware THEN "fault" ELSE IF a.t < b.t THEN "true" ELSE "false"

\* feat.get('properties', {})
PropsOf(feat) == GetOr(feat, "properties", JObj(<<>>))

\* feature_in_range applying only the checks whose bounds exist on both sides
FeatureInRangeLenient(feat, start, end, z) ==
    LET p == PropsOf(feat) IN
    IF p.k # "obj" THEN "fault"
    ELSE LET b == ParseIso(Get(p, "begin"), z) IN
    IF b.k = "fault" THEN "fault"
    ELSE LET e == ParseIso(Get(p, "end"), z) IN
    IF e.k = "fault" THEN "fault"
    ELSE IF b.k = "none" /\ e.k = "none" THEN "out"
    ELSE LET c1 == IF start.k = "dt" /\ e.k = "dt" THEN DtLess(e, start) ELSE "false" IN
    IF c1 = "fault" THEN "fault"
    ELSE IF c1 = "true" THEN "out"
    ELSE LET c2 == IF end.k = "dt" /\ b.k = "dt" THEN DtLess(end, b) ELSE "false" IN
    IF c2 = "fault" THEN "fault"
    ELSE IF c2 = "true" THEN "out"
    ELSE "in"

\* "in" | "out" | "fault"
FeatureInRange(feat, start, end, z) ==
    LET p == PropsOf(feat) IN
    IF p.k # "obj" THEN "fault"
    ELSE LET b == ParseIso(Get(p, "begin"), z) IN
    IF b.k = "fault" THEN "fault"
    ELSE LET e == ParseIso(Get(p, "end"), z) IN
    IF e.k = "fault" THEN "fault"
    ELSE IF b.k = "none" \/ e.k = "none" THEN "out"
    ELSE LET c1 == IF start.k = "dt" THEN DtLess(e, start) ELSE "false" IN
    IF c1 = "fault" THEN "fault"
    ELSE IF c1 = "true" THEN "out"
    ELSE LET c2 == IF end.k = "dt" THEN DtLess(end, b) ELSE "false" IN
    IF c2 = "fault" THEN "fault"
    ELSE IF c2 = "true" THEN "out"
    ELSE "in"

\* [ft for ft in features if feature_in_range(ft, start, end)]: the kept
\* features, or "fault" when one test raises
FilterFaults(features, start, end, z) ==
    \E i \in 1..Len(features) : FeatureInRange(features[i], start, end, z) = "fault"
FilterFeatures(features, start, end, z) ==
    SelectSeq2(features,
               {i \in 1..Len(features) : FeatureInRange(features[i], start, end, z) = "in"})

\* isinstance(v, (int, float)): bool is a subclass of int
IsIntOrFloat(v) == v.k \in {"int", "float", "bool"}

\* the values compute_min_max collects for var
MinMaxVals(features, var) ==
    {Get(PropsOf(features[i]), var).n : i \in
        {j \in 1..Len(features) :
            LET v == Get(PropsOf(features[j]), var)
            IN IsIntOrFloat(v) /\ ~IsNanOrInf(v)}}

SetMin(S) == CHOOSE m \in S : \A y \in S : m <= y
SetMax(S) == CHOOSE m \in S : \A y \in S : m >= y

Stats(mn, mx) == [min |-> mn, max |-> mx]
ComputeMinMax(features, var) ==
    LET vals == MinMaxVals(features, var) IN
    IF vals = {} THEN Stats(JNull, JNull)
    ELSE Stats(JFloat(SetMin(vals)), JFloat(SetMax(vals)))

\* code-point order of the property names the model uses
AlphaOrder == <<"begin", "end", "flag", "id", "speed", "start", "vehicles">>
Rank(key) == CHOOSE i \in 1..Len(AlphaOrder) : AlphaOrder[i] = key

RECURSIVE SortKeys(_)
\* list.sort() of a set of distinct keys
SortKeys(S) ==
    IF S = {} THEN <<>>
    ELSE LET m == CHOOSE x \in S : \A y \in S : Rank(x) <= Rank(y)
         IN <<m>> \o SortKeys(S \ {m})

SkipKeys == {"id", "begin", "end"}

ListVariables(example_feature) ==
    IF ~Truthy(example_feature) THEN <<>>
    ELSE LET p0 == GetOr(example_feature, "properties", JObj(<<>>))
             props == IF Truthy(p0) THEN p0 ELSE JObj(<<>>)
         IN SortKeys({props.kids[i].key : i \in
                {j \in 1..Len(props.kids) :
                    /\ props.kids[j].key \notin SkipKeys
                    /\ IsIntOrFloat(props.kids[j].val)
                    /\ ~IsNanOrInf(props.kids[j].val)}})

EmptyCollection == JObj(<<KV("type", JStr("FeatureCollection")), KV("features", JArr(<<>>))>>)

\* os.path.exists(path) is false
MissingFile == [k |-> "missing", n |-> 0, s |-> "", kids |-> <<>>]

\* safe_load_geojson
SafeLoadGeojson(file) ==
    IF file = MissingFile THEN EmptyCollection ELSE SanitizeJson(file)

----------------------------------------------------------------------------
(* The snapshot files the service may find on disk *)

Absent == [k |-> "absent", n |-> 0, s |-> "", kids |-> <<>>]
NaiveTimes == {JTime("iso-T", t) : t \in 0..MaxTime}

\* a traffic feature with the given begin, end and vehicles properties
\* (Absent: the key is not in the properties)
Feat(b, e, v) ==
    LET all == <<KV("begin", b), KV("end", e), KV("vehicles", v)>>
    IN JObj(<<KV("properties", JObj(SelectSeq(all, LAMBDA kv : kv.val # Absent)))>>)

\* every begin/end pair with a value that differs from feature to feature,
\* features with one bound or none, with a null or NaN value, and with a
\* begin that is no time
FeatureUniverse ==
    {Feat(b, e, JInt(e.n + 1)) : b \in NaiveTimes, e \in NaiveTimes}
    \cup {Feat(JTime("iso-T", 1), Absent, JInt(1)),
          Feat(Absent, JTime("iso-T", 1), JInt(1)),
          Feat(Absent, Absent, JFloat(3)),
          Feat(JTime("iso-T", 1), JTime("iso-T", 1), JNull),
          Feat(JTime("iso-T", 1), JTime("iso-T", 1), JNaN),
          Feat(JStr("garbage"), JTime("iso-T", 1), JInt(1)),
          Feat(JInt(5), JTime("iso-T", 1), JInt(1))}

FeatureSeqs == UNION {[1..n -> FeatureUniverse] : n \in 0..MaxFeatures}

Collection(feats) ==
    JObj(<<KV("type", JStr("FeatureCollection")), KV("features", JArr(feats))>>)

Files == {MissingFile} \cup {Collection(fs) : fs \in FeatureSeqs}

\* the values a start / end query parameter may take (JNull: not given)
QueryTimes ==
    {JNull, JStr("garbage"), JTime("iso-sp", 1), JTime("iso-Z", 1), JTime("iso-off", 1)}
    \cup NaiveTimes
QueryVars == {"vehicles", "speed"}
QueryScopes == {"filtered", "global", "other"}

----------------------------------------------------------------------------
(* The Interval Query Service *)

NoReq == [ep |-> "none", start |-> JNull, end |-> JNull, var |-> "", scope |-> ""]
NoResp == [status |-> "none", body |-> JNull]
NoCall == [op |-> "none", in |-> JNull, arg |-> "", out |-> JNull]
NoStats == [v \in {} |-> Stats(JNull, JNull)]

NoOut == [written |-> {}, buildings |-> <<>>, roads |-> <<>>, traffic |-> <<>>, intervals |-> <<>>]
\* prepare_data.py has not been started
PipelineIdle ==
    /\ traffic = <<>>
    /\ roads = <<>>
    /\ buildings = <<>>
    /\ pc = "idle"
    /\ agg = <<>>
    /\ traffic_geo = <<>>
    /\ artifacts = NoOut

Init ==
    /\ pyZ \in BOOLEAN
    /\ trafficFile \in Files
    /\ state = "Unloaded"
    /\ TRAFFIC_FEATURES_ALL = <<>>
    /\ TRAFFIC_VARS = <<>>
    /\ GLOBAL_STATS = NoStats
    /\ req = NoReq
    /\ resp = NoResp
    /\ call = NoCall
    /\ PipelineIdle

Range(s) == {s[i] : i \in 1..Len(s)}

\* main.py:155-164, the module-level load
Load ==
    /\ state = "Unloaded"
    /\ LET gj == SafeLoadGeojson(trafficFile)
           feats == Items(GetOr(gj, "features", JArr(<<>>)))
           tvars == ListVariables(IF feats # <<>> THEN feats[1] ELSE JObj(<<>>))
       IN /\ TRAFFIC_FEATURES_ALL' = feats
          /\ TRAFFIC_VARS' = tvars
          /\ GLOBAL_STATS' = [v \in Range(tvars) |-> ComputeMinMax(feats, v)]
    /\ state' = "Ready"
    /\ UNCHANGED <<pyZ, trafficFile, req, resp, call, pipeVars>>

\* GLOBAL_STATS.get(var): "none" stands for None
NoneStats == [min |-> JStr("none"), max |-> JStr("none")]
GlobalStatsGet(var) ==
    IF var \in DOMAIN GLOBAL_STATS THEN GLOBAL_STATS[var] ELSE NoneStats

\* the stats of api_traffic (main.py:209-212)
TrafficStats(feats, var, scope) ==
    LET stats == IF scope = "global" THEN GlobalStatsGet(var) ELSE ComputeMinMax(feats, var)
    IN IF scope = "global" /\ stats = NoneStats
       THEN ComputeMinMax(TRAFFIC_FEATURES_ALL, var)
       ELSE stats

\* a payload that counts the snapshot and takes the cached min/max as they are
TrafficPayloadOfSnapshot(feats, var, scope) ==
    LET stats == IF scope = "global" THEN GlobalStatsGet(var) ELSE ComputeMinMax(feats, var) IN
    JObj(<<KV("type", JStr("FeatureCollection")),
           KV("features", JArr(feats)),
           KV("meta", JObj(<<KV("var", JStr(var)),
                             KV("min", IF stats = NoneStats THEN JNull ELSE stats.min),
                             KV("max", IF stats = NoneStats THEN JNull ELSE stats.max),
                             KV("count", JInt(Len(TRAFFIC_FEATURES_ALL))),
                             KV("scope", JStr(scope))>>))>>)

\* main.py:214-224
TrafficPayload(feats, var, scope) ==
    LET stats == TrafficStats(feats, var, scope) IN
    JObj(<<KV("type", JStr("FeatureCollection")),
           KV("features", JArr(feats)),
           KV("meta", JObj(<<KV("var", JStr(var)),
                             KV("min", stats.min),
                             KV("max", stats.max),
                             KV("count", JInt(Len(feats))),
                             KV("scope", JStr(scope))>>))>>)

Fault == [status |-> "fault", body |-> JNull]
Ok(body) == [status |-> "ok", body |-> body]

\* the response of GET /api/map/traffic
TrafficResponse(start, end, var, scope) ==
    LET dt_start == ParseIso(start, pyZ)
        dt_end == ParseIso(end, pyZ)
        windowed == dt_start.k = "dt" \/ dt_end.k = "dt"
    IN IF windowed /\ FilterFaults(TRAFFIC_FEATURES_ALL, dt_start, dt_end, pyZ)
       THEN Fault
       ELSE LET feats == IF windowed
                         THEN FilterFeatures(TRAFFIC_FEATURES_ALL, dt_start, dt_end, pyZ)
                         ELSE TRAFFIC_FEATURES_ALL
            IN Ok(SanitizeJson(TrafficPayload(feats, var, scope)))

\* the stats of api_traffic_minmax (main.py:243-247), or "fault"
MinmaxResponse(start, end, var, scope) ==
    LET dt_start == ParseIso(start, pyZ)
        dt_end == ParseIso(end, pyZ)
    IN IF scope = "global" \/ (dt_start.k # "dt" /\ dt_end.k # "dt")
       THEN LET g == GlobalStatsGet(var)
                stats == IF g # NoneStats THEN g ELSE ComputeMinMax(TRAFFIC_FEATURES_ALL, var)
            IN Ok(JObj(<<KV("min", stats.min), KV("max", stats.max)>>))
       ELSE IF FilterFaults(TRAFFIC_FEATURES_ALL, dt_start, dt_end, pyZ)
       THEN Fault
       ELSE LET stats == ComputeMinMax(
                    FilterFeatures(TRAFFIC_FEATURES_ALL, dt_start, dt_end, pyZ), var)
            IN Ok(JObj(<<KV("min", stats.min), KV("max", stats.max)>>))

ApiTraffic ==
    /\ state = "Ready" /\ req = NoReq
    /\ \E start \in QueryTimes, end \in QueryTimes, var \in QueryVars, scope \in QueryScopes :
          /\ req' = [ep |-> "traffic", start |-> start, end |-> end, var |-> var, scope |-> scope]
          /\ resp' = TrafficResponse(start, end, var, scope)
    /\ UNCHANGED <<pyZ, trafficFile, state, TRAFFIC_FEATURES_ALL, TRAFFIC_VARS, GLOBAL_STATS, call, pipeVars>>

ApiTrafficMinmax ==
    /\ state = "Ready" /\ req = NoReq
    /\ \E start \in QueryTimes, end \in QueryTimes, var \in QueryVars, scope \in QueryScopes :
          /\ req' = [ep |-> "minmax", start |-> start, end |-> end, var |-> var, scope |-> scope]
          /\ resp' = MinmaxResponse(start, end, var, scope)
    /\ UNCHANGED <<pyZ, trafficFile, state, TRAFFIC_FEATURES_ALL, TRAFFIC_VARS, GLOBAL_STATS, call, pipeVars>>

ApiTrafficVars ==
    /\ state = "Ready" /\ req = NoReq
    /\ req' = [NoReq EXCEPT !.ep = "vars"]
    /\ resp' = Ok(JObj(<<KV("variables",
                           JArr([i \in 1..Len(TRAFFIC_VARS) |-> JStr(TRAFFIC_VARS[i])]))>>))
    /\ UNCHANGED <<pyZ, trafficFile, state, TRAFFIC_FEATURES_ALL, TRAFFIC_VARS, GLOBAL_STATS, call, pipeVars>>

\* the response leaves the handler; the snapshot is as before the request
Deliver ==
    /\ req # NoReq
    /\ req' = NoReq
    /\ resp' = NoResp
    /\ UNCHANGED <<pyZ, trafficFile, state, TRAFFIC_FEATURES_ALL, TRAFFIC_VARS, GLOBAL_STATS, call, pipeVars>>

Next == Load \/ ApiTraffic \/ ApiTrafficMinmax \/ ApiTrafficVars \/ Deliver

Spec == Init /\ [][Next]_vars

----------------------------------------------------------------------------
(* Direct calls of the helpers, on inputs drawn from bounded sets *)

PropKeys == {"id", "begin", "start", "speed", "vehicles"}
PropVals == {JInt(1), JFloat(2), JNaN, JNull, JStr("x"), JBool(TRUE)}

\* the property lists of at most MaxProps distinct keys, in every insertion order
PropLists ==
    UNION {{kv \in [1..n -> {KV(key, v) : key \in PropKeys, v \in PropVals}] :
               \A i, j \in 1..n : i # j => kv[i].key # kv[j].key} : n \in 0..MaxProps}

ExampleFeatures ==
    {JObj(<<>>), JObj(<<KV("properties", JNull)>>)}
    \cup {JObj(<<KV("properties", JObj(kv))>>) : kv \in PropLists}

\* the values of one property over a feature sequence (Absent: no such key)
MinMaxInputs ==
    {Absent, JNull, JInt(5), JInt(12), JFloat(7), JNaN, JInf, JStr("x"), JBool(TRUE)}
ValueSeqs == UNION {[1..n -> MinMaxInputs] : n \in 0..MaxVals}
FeaturesOf(vals) == [i \in 1..Len(vals) |-> Feat(Absent, Absent, vals[i])]

Scalars == {JNull, JFloat(2), JNaN, JInf, JStr("x")}
RECURSIVE Chains(_)
\* scalars nested in at most d arrays or objects
Chains(d) ==
    IF d = 0 THEN Scalars
    ELSE Scalars \cup {JArr(<<x>>) : x \in Chains(d - 1)}
                 \cup {JObj(<<KV("a", x)>>) : x \in Chains(d - 1)}
\* arrays and objects of at most two such values
Docs ==
    LET C == Chains(MaxDepth) IN
    C \cup {JArr(<<x, y>>) : x \in C, y \in C}
      \cup {JObj(<<KV(k1, x), KV(k2, y)>>) : x \in C, y \in C,
                k1 \in {"a"}, k2 \in {"b"}}
      \cup {JObj(<<KV("b", x), KV("a", JNaN)>>) : x \in C}

\* the layer files with non-finite values in them
LayerFiles ==
    {MissingFile} \cup {Collection(<<f>>) : f \in FeatureUniverse}
    \cup {Collection(<<JObj(<<KV("geometry", JArr(<<JInf, JFloat(2)>>)),
                             KV("properties", JObj(<<KV("speed", JNaN)>>))>>)>>)}

InitHelpers ==
    /\ pyZ = TRUE
    /\ trafficFile = MissingFile
    /\ state = "Unloaded"
    /\ TRAFFIC_FEATURES_ALL = <<>>
    /\ TRAFFIC_VARS = <<>>
    /\ GLOBAL_STATS = NoStats
    /\ req = NoReq
    /\ resp = NoResp
    /\ call = NoCall
    /\ PipelineIdle

CallListVariables ==
    /\ call = NoCall
    /\ \E ft \in ExampleFeatures :
          call' = [op |-> "list_variables", in |-> ft, arg |-> "",
                   out |-> JArr([i \in 1..Len(ListVariables(ft)) |-> JStr(ListVariables(ft)[i])])]
    /\ UNCHANGED <<svcVars, pipeVars>>

CallComputeMinMax ==
    /\ call = NoCall
    /\ \E vals \in ValueSeqs :
          LET fts == FeaturesOf(vals)
              st == ComputeMinMax(fts, "vehicles")
          IN call' = [op |-> "compute_min_max", in |-> JArr(fts), arg |-> "vehicles",
                      out |-> JObj(<<KV("min", st.min), KV("max", st.max)>>)]
    /\ UNCHANGED <<svcVars, pipeVars>>

CallSanitizeJson ==
    /\ call = NoCall
    /\ \E doc \in Docs :
          call' = [op |-> "sanitize_json", in |-> doc, arg |-> "", out |-> SanitizeJson(doc)]
    /\ UNCHANGED <<svcVars, pipeVars>>

CallSafeLoadGeojson ==
    /\ call = NoCall
    /\ \E file \in LayerFiles :
          call' = [op |-> "safe_load_geojson", in |-> file, arg |-> "",
                   out |-> SafeLoadGeojson(file)]
    /\ UNCHANGED <<svcVars, pipeVars>>

Return ==
    /\ call # NoCall
    /\ call' = NoCall
    /\ UNCHANGED <<svcVars, pipeVars>>

NextHelpers ==
    CallListVariables \/ CallComputeMinMax \/ CallSanitizeJson \/ CallSafeLoadGeojson \/ Return

SpecHelpers == InitHelpers /\ [][NextHelpers]_vars

----------------------------------------------------------------------------
(* Properties of the Interval Query Service *)

ReqStart == ParseIso(req.start, pyZ)
ReqEnd == ParseIso(req.end, pyZ)
Windowed == ReqStart.k = "dt" \/ ReqEnd.k = "dt"
Returned == IF resp.status = "ok" THEN Range(Items(Get(resp.body, "features"))) ELSE {}
Snapshot == Range(TRAFFIC_FEATURES_ALL)
BeginOf(ft) == ParseIso(Get(PropsOf(ft), "begin"), pyZ)
EndOf(ft) == ParseIso(Get(PropsOf(ft), "end"), pyZ)
\* the two rejections of the overlap test, on the instants
EndsBeforeStart(ft) == ReqStart.k = "dt" /\ EndOf(ft).k = "dt" /\ EndOf(ft).t < ReqStart.t
BeginsAfterEnd(ft) == ReqEnd.k = "dt" /\ BeginOf(ft).k = "dt" /\ BeginOf(ft).t > ReqEnd.t

\* C1: with a window supplied, fetch-traffic returns a feature whose begin and
\* end both parse if and only if it does not end before start and does not
\* begin after end (bounds inclusive).
C1_IncludedIffOverlap ==
    (req.ep = "traffic" /\ Windowed) =>
        \A ft \in Snapshot :
            (BeginOf(ft).k = "dt" /\ EndOf(ft).k = "dt") =>
                (ft \in Returned <=> (~EndsBeforeStart(ft) /\ ~BeginsAfterEnd(ft)))

ExactlyOneBound(ft) ==
    /\ BeginOf(ft).k # "fault" /\ EndOf(ft).k # "fault"
    /\ (BeginOf(ft).k = "dt") # (EndOf(ft).k = "dt")

\* C2 as stated: in the answer to a windowed query, a feature with exactly one
\* of begin/end is included whenever the comparison on its existing bound does
\* not reject it.
C2_OneBoundIncluded ==
    (req.ep = "traffic" /\ Windowed /\ resp.status = "ok") =>
        \A ft \in Snapshot :
            (ExactlyOneBound(ft) /\ ~EndsBeforeStart(ft) /\ ~BeginsAfterEnd(ft)) =>
                ft \in Returned

\* C2, amended: with a window supplied, feature_in_range returns false only
\* for a feature that lacks begin or end (either one) or that one of the two
\* comparisons rejects, and a feature with exactly one of begin/end is never
\* returned.
C2_MissingBoundExcluded ==
    (req.ep = "traffic" /\ Windowed) =>
        \A ft \in Snapshot :
            /\ ExactlyOneBound(ft) => ft \notin Returned
            /\ FeatureInRange(ft, ReqStart, ReqEnd, pyZ) = "out" =>
                  \/ BeginOf(ft).k = "none" \/ EndOf(ft).k = "none"
                  \/ EndsBeforeStart(ft) \/ BeginsAfterEnd(ft)
            /\ resp.status = "ok" =>
                  (ft \in Returned <=> FeatureInRange(ft, ReqStart, ReqEnd, pyZ) = "in")

C2_Witness ==
    /\ req.ep = "traffic" /\ Windowed /\ resp.status = "ok"
    /\ \E ft \in Snapshot :
          /\ ExactlyOneBound(ft) /\ ~EndsBeforeStart(ft) /\ ~BeginsAfterEnd(ft)
          /\ ft \notin Returned

\* what the handlers answer to the request with one parameter left out
Respond(r) ==
    IF r.ep = "traffic" THEN TrafficResponse(r.start, r.end, r.var, r.scope)
    ELSE MinmaxResponse(r.start, r.end, r.var, r.scope)
Unparseable(v) == v # JNull /\ ParseIso(v, pyZ).k = "none"

\* C3: fetch-traffic and fetch-minmax answer every combination of start, end,
\* variable and scope with a well-formed response, never a fault, and treat an
\* unparseable start or end as absent.
C3_AlwaysWellFormed ==
    req.ep \in {"traffic", "minmax"} =>
        /\ resp.status = "ok"
        /\ resp.body.k = "obj"
        /\ Unparseable(req.start) => resp = Respond([req EXCEPT !.start = JNull])
        /\ Unparseable(req.end) => resp = Respond([req EXCEPT !.end = JNull])

RespStats ==
    IF req.ep = "traffic"
    THEN Stats(Get(Get(resp.body, "meta"), "min"), Get(Get(resp.body, "meta"), "max"))
    ELSE Stats(Get(resp.body, "min"), Get(resp.body, "max"))
\* the features that pass the window filter (all of them without a window)
Passing ==
    IF Windowed
    THEN SelectSeq(TRAFFIC_FEATURES_ALL,
                   LAMBDA ft : /\ BeginOf(ft).k = "dt" /\ EndOf(ft).k = "dt"
                               /\ ~EndsBeforeStart(ft) /\ ~BeginsAfterEnd(ft))
    ELSE TRAFFIC_FEATURES_ALL

\* C6: with scope=global the min/max of fetch-traffic and fetch-minmax are
\* those of the whole snapshot whatever start/end are (also for a variable
\* missing from the cache); with scope=filtered they are those of the features
\* that pass the window filter.
C6_ScopeStats ==
    (req.ep \in {"traffic", "minmax"} /\ req.scope \in {"global", "filtered"}) =>
        /\ resp.status = "ok"
        /\ RespStats = IF req.scope = "global"
                       THEN ComputeMinMax(TRAFFIC_FEATURES_ALL, req.var)
                       ELSE ComputeMinMax(Passing, req.var)

----------------------------------------------------------------------------
(* Properties of the helpers *)

Names(arr) == [i \in 1..Len(arr.kids) |-> arr.kids[i].val.s]
IsNumber(v) == v.k \in {"int", "float"} /\ ~IsNanOrInf(v)
InProps(ft) ==
    IF HasKey(ft, "properties") /\ Get(ft, "properties").k = "obj"
    THEN Get(ft, "properties").kids ELSE <<>>

\* C4: list_variables returns exactly the names of the properties whose value
\* is a finite number, none of id, begin, end, start, in ascending alphabetical
\* order; nothing for an empty feature.
C4_NumericNamesSorted ==
    call.op = "list_variables" =>
        LET out == Names(call.out)
            kv == InProps(call.in)
        IN /\ Range(out) = {kv[i].key : i \in {j \in 1..Len(kv) :
                                /\ IsNumber(kv[j].val)
                                /\ kv[j].key \notin {"id", "begin", "end", "start"}}}
           /\ \A i, j \in 1..Len(out) : i < j => Rank(out[i]) < Rank(out[j])

\* C5: min_max returns the minimum and maximum of exactly the values that are
\* finite numbers (null, missing and non-numeric values are ignored), and
\* {min: null, max: null} when there is none.
C5_MinMaxOfNumbers ==
    call.op = "compute_min_max" =>
        LET fts == Items(call.in)
            nums == {Get(PropsOf(fts[i]), call.arg).n : i \in
                        {j \in 1..Len(fts) : IsNumber(Get(PropsOf(fts[j]), call.arg))}}
            mn == Get(call.out, "min")
            mx == Get(call.out, "max")
        IN IF nums = {} THEN mn = JNull /\ mx = JNull
           ELSE /\ mn.k = "float" /\ mn.n \in nums /\ \A x \in nums : mn.n <= x
                /\ mx.k = "float" /\ mx.n \in nums /\ \A x \in nums : mx.n >= x

RECURSIVE NoNonFinite(_)
NoNonFinite(v) ==
    /\ ~IsNanOrInf(v)
    /\ \A i \in 1..Len(v.kids) : NoNonFinite(v.kids[i].val)

RECURSIVE SameButNonFinite(_, _)
\* out is in with each NaN / infinite value replaced by null and nothing else changed
SameButNonFinite(in, out) ==
    IF IsNanOrInf(in) THEN out = JNull
    ELSE /\ out.k = in.k /\ out.n = in.n /\ out.s = in.s
         /\ Len(out.kids) = Len(in.kids)
         /\ \A i \in 1..Len(in.kids) :
               /\ out.kids[i].key = in.kids[i].key
               /\ SameButNonFinite(in.kids[i].val, out.kids[i].val)

----------------------------------------------------------------------------
(* prepare_data.py: the Aggregation Pipeline *)

\* a missing number (to_numeric coerces what is not a number to NaN)
NaN == 0 - 1
\* a pandas Timestamp: whole seconds s and the fraction of a second f
TS(sec, frac) == [s |-> sec, f |-> frac]
\* a missing timestamp (to_datetime coerces what does not parse to NaT)
NaT == [s |-> 0 - 1, f |-> 0]
TsLess(a, b) == a.s < b.s \/ (a.s = b.s /\ a.f < b.f)
\* a missing vclass
NoClass == ""

\* table cells and JSON property values: a number num/den, NaN, null, a
\* string, an ISO time of whole seconds
Num(num, den) == [k |-> "num", num |-> num, den |-> den, s |-> ""]
NaNCell == [k |-> "nan", num |-> 0, den |-> 1, s |-> ""]
NullV == [k |-> "null", num |-> 0, den |-> 1, s |-> ""]
StrV(text) == [k |-> "str", num |-> 0, den |-> 1, s |-> text]
IsoV(sec) == [k |-> "iso", num |-> sec, den |-> 1, s |-> ""]

\* ts.strftime("%Y-%m-%dT%H:%M:%S") drops the fraction of a second
ToIsoSeconds(ts) == IF ts = NaT THEN NullV ELSE IsoV(ts.s)

\* twice traffic["vehicles_row"] = (entered + left) / 2.0
VehiclesRow2(r) == IF r.entered = NaN \/ r.left = NaN THEN NaN ELSE r.entered + r.left
\* twice value * vehicles_row
Weighted2(value, r) ==
    IF value = NaN \/ VehiclesRow2(r) = NaN THEN NaN ELSE value * VehiclesRow2(r)

RECURSIVE SumSkipNa(_, _)
\* the sum of f over the rows S, NaN skipped (0 for no row)
SumSkipNa(S, f) ==
    IF S = {} THEN 0
    ELSE LET i == CHOOSE x \in S : TRUE
         IN (IF f[i] = NaN THEN 0 ELSE f[i]) + SumSkipNa(S \ {i}, f)

KeyOf(r) == <<r.id, r.begin, r.end>>
ValidTimes(r) == r.begin # NaT /\ r.end # NaT
Rows(tr) == 1..Len(tr)
\* groupby(["id", "begin", "end"]) drops the rows with a missing key
GroupKeys(tr) == {KeyOf(tr[i]) : i \in {j \in Rows(tr) : ValidTimes(tr[j])}}
GroupRows(tr, key) == {i \in Rows(tr) : KeyOf(tr[i]) = key}

IdOrder == <<"R1", "R2">>
IdRank(id) == CHOOSE i \in 1..Len(IdOrder) : IdOrder[i] = id
KeyLess(a, b) ==
    \/ IdRank(a[1]) < IdRank(b[1])
    \/ a[1] = b[1] /\ TsLess(a[2], b[2])
    \/ a[1] = b[1] /\ a[2] = b[2] /\ TsLess(a[3], b[3])

RECURSIVE SortedKeys(_)
\* the group keys in groupby's (sorted) order
SortedKeys(S) ==
    IF S = {} THEN <<>>
    ELSE LET m == CHOOSE x \in S : \A y \in S \ {x} : KeyLess(x, y)
         IN <<m>> \o SortedKeys(S \ {m})

\* a mean that reports zero instead of nothing for a zero weight
MeanOrZero(num, den) == IF den > 0 THEN Num(num, den) ELSE Num(0, 1)

\* num / den where den > 0, NaN otherwise (np.where(w_den > 0, ..., np.nan))
MeanOrNaN(num, den) == IF den > 0 THEN Num(num, den) ELSE NaNCell

\* lines 90-98: one row of totals
Totals(tr, key) ==
    LET g == GroupRows(tr, key)
        w == [i \in Rows(tr) |-> VehiclesRow2(tr[i])]
        den == SumSkipNa(g, w)
    IN [vehicles |-> Num(den, 2),
        speed |-> MeanOrNaN(SumSkipNa(g, [i \in Rows(tr) |-> Weighted2(tr[i].speed, tr[i])]), den),
        speedRelative |->
            MeanOrNaN(SumSkipNa(g, [i \in Rows(tr) |-> Weighted2(tr[i].speedRelative, tr[i])]), den)]

SpeedColumn(c) ==
    CASE c = "car" -> "car_s"
      [] c = "truck" -> "truck_s"
      [] OTHER -> "_s"

\* pivot_table(index=gcols, columns="vclass"): rows with a missing id, begin,
\* end or vclass are dropped before grouping
PivotRows(tr) == {i \in Rows(tr) : ValidTimes(tr[i]) /\ tr[i].vclass # NoClass}
PivotColumns(tr) == {tr[i].vclass : i \in PivotRows(tr)}
PivotIndex(tr) == {KeyOf(tr[i]) : i \in PivotRows(tr)}

\* twice class_counts[key][c]: the sum of the cell, 0.0 (fill_value) for an empty one
ClassCount2(tr, key, c) ==
    SumSkipNa({i \in GroupRows(tr, key) : tr[i].vclass = c},
              [i \in Rows(tr) |-> VehiclesRow2(tr[i])])
\* twice class_speed_num[key][c]
ClassSpeedNum2(tr, key, c) ==
    SumSkipNa({i \in GroupRows(tr, key) : tr[i].vclass = c},
              [i \in Rows(tr) |-> Weighted2(tr[i].speed, tr[i])])
\* class_speed_num / class_counts.replace({0.0: np.nan})
ClassSpeed(tr, key, c) ==
    IF ClassCount2(tr, key, c) = 0 THEN NaNCell
    ELSE Num(ClassSpeedNum2(tr, key, c), ClassCount2(tr, key, c))

\* line 106: the columns of agg besides id, begin, end; the left joins leave
\* NaN in the class columns of a group that is not in the pivot's index
AggColumns(tr) ==
    {"vehicles", "speed", "speedRelative"} \cup PivotColumns(tr)
    \cup {SpeedColumn(c) : c \in PivotColumns(tr)}
AggRow(tr, key) ==
    [id |-> key[1], begin |-> key[2], end |-> key[3], geometry |-> "nan",
     cols |-> [col \in AggColumns(tr) |->
        CASE col \in {"vehicles", "speed", "speedRelative"} -> Totals(tr, key)[col]
          [] col \in PivotColumns(tr) ->
                IF key \in PivotIndex(tr) THEN Num(ClassCount2(tr, key, col), 2) ELSE NaNCell
          [] OTHER ->
                LET c == CHOOSE x \in PivotColumns(tr) : SpeedColumn(x) = col
                IN IF key \in PivotIndex(tr) THEN ClassSpeed(tr, key, c) ELSE NaNCell]]
AggTable(tr) ==
    LET keys == SortedKeys(GroupKeys(tr))
    IN [i \in 1..Len(keys) |-> AggRow(tr, keys[i])]

\* agg.merge(roads_small, on="id", how="left"): one row per matching roads row,
\* in the order of roads; one row without geometry when none matches
MergeRow(row, rd) ==
    LET ms == SelectSeq(rd, LAMBDA x : x.id = row.id)
    IN IF ms = <<>> THEN <<row>>
       ELSE [i \in 1..Len(ms) |-> [row EXCEPT !.geometry = ms[i].geometry]]
RECURSIVE MergeLeft(_, _)
MergeLeft(a, rd) ==
    IF a = <<>> THEN <<>> ELSE MergeRow(Head(a), rd) \o MergeLeft(Tail(a), rd)

\* from_wkb raises on bytes that are no geometry
DecodeRaises(df) == \E i \in 1..Len(df) : df[i].geometry = "bad"
\* decode_wkb_to_geojson_features, when no row raises
DecodeWkbToGeojsonFeatures(df) ==
    LET kept == SelectSeq(df, LAMBDA x : x.geometry # "nan")
    IN [i \in 1..Len(kept) |-> [id |-> kept[i].id, geometry |-> "geom"]]

\* the classes taken from the aggregated table instead of the raw rows
ClassesOfAgg(tr) == PivotColumns(tr)

\* line 127
Classes(tr) == {tr[i].vclass : i \in {j \in Rows(tr) : tr[j].vclass # NoClass}}

\* float(x) if pd.notna(x) else None
FloatOrNone(cell) == IF cell.k = "nan" THEN NullV ELSE cell
\* row.get(col, np.nan)
RowGet(row, col) == IF col \in DOMAIN row.cols THEN row.cols[col] ELSE NaNCell

\* lines 129-151: the feature of one row of traffic_geo
TrafficFeature(row, classes) ==
    [geometry |-> IF row.geometry = "wkb" THEN "geom" ELSE "null",
     properties |->
        [key \in {"id", "begin", "end", "vehicles", "speed", "speedRelative"}
                 \cup classes \cup {SpeedColumn(c) : c \in classes} |->
            CASE key = "id" -> StrV(row.id)
              [] key = "begin" -> ToIsoSeconds(row.begin)
              [] key = "end" -> ToIsoSeconds(row.end)
              [] OTHER -> FloatOrNone(RowGet(row, key))]]

\* lines 157-158
IntervalPairs(tr) == {<<tr[i].begin, tr[i].end>> : i \in {j \in Rows(tr) : ValidTimes(tr[j])}}
PairLess(a, b) == TsLess(a[1], b[1]) \/ (a[1] = b[1] /\ TsLess(a[2], b[2]))
RECURSIVE SortedPairs(_)
SortedPairs(S) ==
    IF S = {} THEN <<>>
    ELSE LET m == CHOOSE x \in S : \A y \in S \ {x} : PairLess(x, y)
         IN <<m>> \o SortedPairs(S \ {m})
Intervals(tr) ==
    LET uni == SortedPairs(IntervalPairs(tr))
    IN [i \in 1..Len(uni) |-> [begin |-> ToIsoSeconds(uni[i][1]), end |-> ToIsoSeconds(uni[i][2])]]

----------------------------------------------------------------------------
(* The tables the pipeline may be given *)

Row(id, b, e, cls, entered, left, speed) ==
    [id |-> id, begin |-> b, end |-> e, vclass |-> cls, entered |-> entered,
     left |-> left, speed |-> speed, speedRelative |-> IF speed = NaN THEN NaN ELSE 1]
Car(id, b, e) == Row(id, b, e, "car", 10, 8, 40)
Truck(id, b, e) == Row(id, b, e, "truck", 2, 2, 30)

\* rows of two segments, of intervals that differ within and beyond a second,
\* of two classes, and rows with a missing timestamp, class, count or speed
TrafficRows ==
    {Car("R1", TS(0, 0), TS(2, 0)), Truck("R1", TS(0, 0), TS(2, 0)),
     Car("R1", TS(0, 1), TS(2, 0)), Truck("R1", TS(1, 0), TS(2, 0)),
     Car("R1", TS(0, 0), TS(3, 0)),
     Car("R2", TS(0, 0), TS(2, 0)),
     Truck("R1", NaT, TS(2, 0)), Car("R1", TS(0, 0), NaT),
     Row("R1", TS(0, 0), TS(2, 0), NoClass, 2, 2, 30),
     Row("R1", TS(0, 0), TS(2, 0), "car", NaN, 8, 40),
     Row("R1", TS(0, 0), TS(2, 0), "car", 0, 0, 40),
     Row("R1", TS(0, 0), TS(2, 0), "truck", 2, 2, NaN)}
TrafficTables == UNION {[1..n -> TrafficRows] : n \in 0..MaxRows}

RoadRows == {[id |-> "R1", geometry |-> g] : g \in {"wkb", "nan", "bad"}}
RoadsTables == UNION {[1..n -> RoadRows] : n \in 0..MaxRoads}
BuildingsTables ==
    {<<>>, <<[id |-> "B1", geometry |-> "wkb"]>>, <<[id |-> "B1", geometry |-> "bad"]>>,
     <<[id |-> "B1", geometry |-> "nan"], [id |-> "B2", geometry |-> "wkb"]>>}

----------------------------------------------------------------------------
(* One run of prepare_data.py *)

InitPipeline ==
    /\ pyZ = TRUE
    /\ trafficFile = MissingFile
    /\ state = "Unloaded"
    /\ TRAFFIC_FEATURES_ALL = <<>>
    /\ TRAFFIC_VARS = <<>>
    /\ GLOBAL_STATS = NoStats
    /\ req = NoReq
    /\ resp = NoResp
    /\ call = NoCall
    /\ traffic \in TrafficTables
    /\ roads \in RoadsTables
    /\ buildings \in BuildingsTables
    /\ pc = "metrics"
    /\ agg = <<>>
    /\ traffic_geo = <<>>
    /\ artifacts = NoOut

\* lines 82-107
Aggregate ==
    /\ pc = "metrics"
    /\ agg' = AggTable(traffic)
    /\ pc' = "join"
    /\ UNCHANGED <<svcVars, call, traffic, roads, buildings, traffic_geo, artifacts>>

\* lines 110-111
JoinGeometry ==
    /\ pc = "join"
    /\ traffic_geo' = MergeLeft(agg, roads)
    /\ pc' = "buildings"
    /\ UNCHANGED <<svcVars, call, traffic, roads, buildings, agg, artifacts>>

\* lines 119-120
ExportBuildings ==
    /\ pc = "buildings"
    /\ IF DecodeRaises(buildings)
       THEN pc' = "aborted" /\ UNCHANGED artifacts
       ELSE /\ pc' = "roads"
            /\ artifacts' = [artifacts EXCEPT !.written = @ \cup {"buildings"},
                                             !.buildings = DecodeWkbToGeojsonFeatures(buildings)]
    /\ UNCHANGED <<svcVars, call, traffic, roads, buildings, agg, traffic_geo>>

\* lines 123-124
ExportRoads ==
    /\ pc = "roads"
    /\ IF DecodeRaises(roads)
       THEN pc' = "aborted" /\ UNCHANGED artifacts
       ELSE /\ pc' = "traffic"
            /\ artifacts' = [artifacts EXCEPT !.written = @ \cup {"roads"},
                                             !.roads = DecodeWkbToGeojsonFeatures(roads)]
    /\ UNCHANGED <<svcVars, call, traffic, roads, buildings, agg, traffic_geo>>

\* lines 127-154
ExportTraffic ==
    /\ pc = "traffic"
    /\ IF DecodeRaises(traffic_geo)
       THEN pc' = "aborted" /\ UNCHANGED artifacts
       ELSE /\ pc' = "intervals"
            /\ artifacts' = [artifacts EXCEPT !.written = @ \cup {"traffic"},
                    !.traffic = [i \in 1..Len(traffic_geo) |->
                                    TrafficFeature(traffic_geo[i], Classes(traffic))]]
    /\ UNCHANGED <<svcVars, call, traffic, roads, buildings, agg, traffic_geo>>

\* lines 157-159
ExportIntervals ==
    /\ pc = "intervals"
    /\ pc' = "done"
    /\ artifacts' = [artifacts EXCEPT !.written = @ \cup {"intervals"},
                                     !.intervals = Intervals(traffic)]
    /\ UNCHANGED <<svcVars, call, traffic, roads, buildings, agg, traffic_geo>>

NextPipeline ==
    Aggregate \/ JoinGeometry \/ ExportBuildings \/ ExportRoads \/ ExportTraffic \/ ExportIntervals

SpecPipeline == InitPipeline /\ [][NextPipeline]_vars

----------------------------------------------------------------------------
(* Properties of the Aggregation Pipeline *)

Emitted == artifacts.traffic
EmittedKey(ft) == <<ft.properties["id"], ft.properties["begin"], ft.properties["end"]>>

\* C8: no two emitted traffic records share the same id, begin and end,
\* whatever the traffic rows and the roads table.
C8_UniqueKeys ==
    "traffic" \in artifacts.written =>
        \A i, j \in 1..Len(Emitted) :
            i # j => EmittedKey(Emitted[i]) # EmittedKey(Emitted[j])

\* the raw rows of the interval of the i-th emitted feature with class c
RowsOfClass(i, c) ==
    {j \in Rows(traffic) : KeyOf(traffic[j]) = KeyOf(traffic_geo[i]) /\ traffic[j].vclass = c}
HasClassRow(i) ==
    \E j \in Rows(traffic) :
        KeyOf(traffic[j]) = KeyOf(traffic_geo[i]) /\ traffic[j].vclass # NoClass
ClassTimed(c) == \E j \in Rows(traffic) : traffic[j].vclass = c /\ ValidTimes(traffic[j])
RawClasses == {traffic[j].vclass : j \in Rows(traffic)} \ {NoClass}

IsoPairLess(a, b) ==
    a.begin.num < b.begin.num \/ (a.begin.num = b.begin.num /\ a.end.num < b.end.num)

\* C10: the emitted intervals are exactly the distinct (begin, end) pairs of the
\* raw rows whose timestamps both parse, whatever the geometry and the
\* aggregation; as serialized they ascend by begin then end with no entry
\* repeated.
C10_IntervalsSortedDistinct ==
    "intervals" \in artifacts.written =>
        LET iv == artifacts.intervals IN
        /\ Range(iv) = {[begin |-> ToIsoSeconds(traffic[j].begin),
                         end |-> ToIsoSeconds(traffic[j].end)] :
                            j \in {x \in Rows(traffic) : ValidTimes(traffic[x])}}
        /\ \A i, j \in 1..Len(iv) : i < j => IsoPairLess(iv[i], iv[j])

\* the raw rows that share id, begin and end with the i-th emitted feature
GroupOf(i) == {j \in Rows(traffic) : KeyOf(traffic[j]) = KeyOf(traffic_geo[i])}
\* twice the row estimate w = (entered + left) / 2; a row without an estimate
\* weighs nothing
Est2(j) ==
    IF traffic[j].entered = NaN \/ traffic[j].left = NaN THEN 0
    ELSE traffic[j].entered + traffic[j].left
\* twice value * w; a row with a missing value adds nothing
Prod2(j, col) == IF traffic[j][col] = NaN THEN 0 ELSE traffic[j][col] * Est2(j)
RECURSIVE SumEst2(_)
SumEst2(S) ==
    IF S = {} THEN 0 ELSE LET j == CHOOSE x \in S : TRUE IN Est2(j) + SumEst2(S \ {j})
RECURSIVE SumProd2(_, _)
SumProd2(S, col) ==
    IF S = {} THEN 0
    ELSE LET j == CHOOSE x \in S : TRUE IN Prod2(j, col) + SumProd2(S \ {j}, col)
\* the emitted value is the number n / d, and null when d is zero
IsRatio(cell, n, d) ==
    IF d = 0 THEN cell = NullV ELSE cell.k = "num" /\ cell.num * d = n * cell.den

\* C11: every group of raw rows sharing (id, begin, end) is emitted, and in its
\* feature vehicles is the sum of the rows' estimates w = (entered + left) / 2,
\* speed, speedRelative and each <class>_s of a class with rows in the group
\* are sum(value * w) / sum(w) over the rows concerned, a row with a missing
\* value adding nothing to the numerator, and are null, not zero, when the
\* total weight is zero; <class> is the sum of w over the rows of the class.
C11_WeightedMeans ==
    "traffic" \in artifacts.written =>
        /\ \A j \in Rows(traffic) : ValidTimes(traffic[j]) =>
              \E i \in 1..Len(Emitted) : j \in GroupOf(i)
        /\ \A i \in 1..Len(Emitted) :
              LET p == Emitted[i].properties
                  g == GroupOf(i)
              IN /\ g # {}
                 /\ IsRatio(p["vehicles"], SumEst2(g), 2)
                 /\ IsRatio(p["speed"], SumProd2(g, "speed"), SumEst2(g))
                 /\ IsRatio(p["speedRelative"], SumProd2(g, "speedRelative"), SumEst2(g))
                 /\ \A c \in RawClasses : RowsOfClass(i, c) # {} =>
                       /\ IsRatio(p[c], SumEst2(RowsOfClass(i, c)), 2)
                       /\ IsRatio(p[SpeedColumn(c)], SumProd2(RowsOfClass(i, c), "speed"),
                                  SumEst2(RowsOfClass(i, c)))

\* the example: rows (car, 10, 8, 40) and (truck, 2, 2, 30) of one group give
\* vehicles 11, speed 420/11, car 9, car_s 40, truck 2, truck_s 30
C11_Witness ==
    /\ "traffic" \in artifacts.written
    /\ \E i \in 1..Len(Emitted) :
          LET p == Emitted[i].properties
          IN /\ {traffic[j].vclass : j \in GroupOf(i)} = {"car", "truck"}
             /\ IsRatio(p["vehicles"], 11, 1)
             /\ IsRatio(p["speed"], 420, 11)
             /\ IsRatio(p["car"], 9, 1) /\ IsRatio(p["car_s"], 40, 1)
             /\ IsRatio(p["truck"], 2, 1) /\ IsRatio(p["truck_s"], 30, 1)

\* a group whose total weight is zero: its speed is null, not zero
C11_ZeroWeight ==
    /\ "traffic" \in artifacts.written
    /\ \E i \in 1..Len(Emitted) :
          /\ SumEst2(GroupOf(i)) = 0
          /\ Emitted[i].properties["speed"] = NullV
          /\ Emitted[i].properties["vehicles"] = Num(0, 2)

----------------------------------------------------------------------------
(* prepare_data.py's write_json over a file the service may be loading *)

\* traffic_agg.geojson while write_json is rewriting it: the text up to its
\* n-th feature, without the closing brackets (nothing at all after open())
Torn(feats, n) == [k |-> "torn", n |-> n, s |-> "", kids |-> SubSeq(feats, 1, n)]

\* a previous run left trafficFile (or none); this run is about to write obj
InitEmit ==
    /\ pyZ = TRUE
    /\ trafficFile \in Files
    /\ state = "Unloaded"
    /\ TRAFFIC_FEATURES_ALL = <<>>
    /\ TRAFFIC_VARS = <<>>
    /\ GLOBAL_STATS = NoStats
    /\ req = NoReq
    /\ resp = NoResp
    /\ \E fs \in FeatureSeqs :
          call = [op |-> "write_json", in |-> Collection(fs), arg |-> "", out |-> JNull]
    /\ traffic = <<>>
    /\ roads = <<>>
    /\ buildings = <<>>
    /\ pc = "open"
    /\ agg = <<>>
    /\ traffic_geo = <<>>
    /\ artifacts = NoOut

\* open(path, "w"): the file is created or cut to nothing
WriteJsonOpen ==
    /\ pc = "open"
    /\ trafficFile' = Torn(Items(Get(call.in, "features")), 0)
    /\ pc' = "dump"
    /\ UNCHANGED <<pyZ, state, TRAFFIC_FEATURES_ALL, TRAFFIC_VARS, GLOBAL_STATS, req, resp,
                   call, traffic, roads, buildings, agg, traffic_geo, artifacts>>

\* json.dump(obj, f): the text goes to the file buffer by buffer
WriteJsonFlush ==
    /\ pc = "dump"
    /\ \E n \in (trafficFile.n + 1)..Len(Items(Get(call.in, "features"))) :
          trafficFile' = Torn(Items(Get(call.in, "features")), n)
    /\ UNCHANGED <<pyZ, state, TRAFFIC_FEATURES_ALL, TRAFFIC_VARS, GLOBAL_STATS, req, resp,
                   call, traffic, roads, buildings, pc, agg, traffic_geo, artifacts>>

\* the end of the with block: the rest of the text is flushed, the file closed
WriteJsonClose ==
    /\ pc = "dump"
    /\ trafficFile' = call.in
    /\ pc' = "done"
    /\ artifacts' = [artifacts EXCEPT !.written = @ \cup {"traffic"}]
    /\ UNCHANGED <<pyZ, state, TRAFFIC_FEATURES_ALL, TRAFFIC_VARS, GLOBAL_STATS, req, resp,
                   call, traffic, roads, buildings, agg, traffic_geo>>

\* the service starts and finds a whole file, or none
LoadWhole == trafficFile.k # "torn" /\ Load

\* the service starts while the file is being rewritten: json.load raises on
\* the cut text, and the module never finishes loading
LoadTorn ==
    /\ state = "Unloaded"
    /\ trafficFile.k = "torn"
    /\ state' = "Failed"
    /\ UNCHANGED <<pyZ, trafficFile, TRAFFIC_FEATURES_ALL, TRAFFIC_VARS, GLOBAL_STATS, req,
                   resp, call, pipeVars>>

NextEmit == WriteJsonOpen \/ WriteJsonFlush \/ WriteJsonClose \/ LoadWhole \/ LoadTorn

SpecEmit == InitEmit /\ [][NextEmit]_vars

\* C12: while write_json overwrites an output file, the file on disk is at
\* every instant a complete document, the previous one or the new one, and a
\* service loading it never reads a partly written file.
C12_NoTornFile ==
    /\ trafficFile \in Files
    /\ pc = "done" => trafficFile = call.in
    /\ state # "Failed"

\* the features of the rows of df whose geometry decodes, in row order
Decodable(df) ==
    LET kept == SelectSeq(df, LAMBDA x : x.geometry = "wkb")
    IN [i \in 1..Len(kept) |-> [id |-> kept[i].id, geometry |-> "geom"]]

\* C13: a row whose geometry is missing or cannot be decoded is skipped and
\* does not abort the run: the run goes on, all four artifacts are emitted, and
\* the features of the remaining rows appear in input row order.
C13_BadGeometrySkipped ==
    /\ pc # "aborted"
    /\ "buildings" \in artifacts.written => artifacts.buildings = Decodable(buildings)
    /\ "roads" \in artifacts.written => artifacts.roads = Decodable(roads)
    /\ pc = "done" => artifacts.written = {"buildings", "roads", "traffic", "intervals"}

\* the meta object and the features of a fetch-traffic payload
Meta == Get(resp.body, "meta")
ReturnedSeq == Items(Get(resp.body, "features"))
\* the returned feature's value of the requested variable
ValueOf(ft) == Get(PropsOf(ft), req.var)

====
